---- MODULE Spec2Model ----
(***************************************************************************)
(* Unity Clutter Cutter (find_unused.py): a run of main() as a state       *)
(* machine.  The file system is the run's input and does not change while  *)
(* the run lasts.                                                          *)
(*                                                                         *)
(*   - the directory chain from the filesystem root (level 0) down to the  *)
(*     resolved --dir argument, and which of its directories hold a        *)
(*     directory named "Assets" (marker);                                  *)
(*   - metas: the .meta files of the --dir subtree, in os.walk order;      *)
(*     the asset path of metas[i] is i;                                    *)
(*   - files: the regular files under the located Assets directory, in     *)
(*     os.walk order; the path of files[j] is j.                           *)
(***************************************************************************)
EXTENDS Integers, Sequences, FiniteSets, TLC

\* ---------------------------------------------------------------- bounds
MaxDepth == 3       \* deepest level of the resolved --dir (0 = filesystem root)
MaxGuid == 2        \* distinct identifiers
MaxMetas == 2       \* .meta files in the --dir subtree
MaxTreeFiles == 1   \* files under the Assets directory in a whole run (Spec)
MaxCorpus == 2      \* length of the list handed to find_references_to_guid (SpecResolve)

\* ------------------------------------------------------ program constants
MinProcesses == 1
MaxProcesses == 32

Guids == 1..MaxGuid
NoGuid == 0         \* get_guid_from_meta's None (identifiers are 1..MaxGuid)
NoDir == -1         \* a --dir argument that is not an existing directory (levels are >= 0)

VARIABLES
    pc,               \* main's position
    processes,        \* args.processes
    dir,              \* args.dir, resolved: its level in the chain, or NoDir
    marker,           \* the levels whose directory holds an "Assets" directory
    current,          \* find_assets_dir's loop variable
    examined,         \* the directories find_assets_dir tested with is_dir, in order
    assets_dir,       \* level whose Assets directory was returned, or NoDir
    metas,            \* the .meta files of the --dir subtree, in walk order
    mi,               \* how many of them find_assets_to_check has processed
    assets_to_check,  \* the dict, as its items in insertion order
    files,            \* the files under assets_dir, in walk order
    fi,               \* how many of them collect_searchable_files has processed
    searchable_files, \* the list of paths (indices into files)
    task,             \* the pool's work items, one per entry of search_args
    reads,            \* per finished task: the corpus positions it read, in order
    outqueue,         \* results the pool has received and main not yet consumed
    pbar,             \* the progress counter (tqdm's n)
    unused_assets,    \* the Result Set, a list of asset paths
    exit_status,      \* "running", "0" or "1"
    printed           \* tags of the messages printed so far

vars == <<pc, processes, dir, marker, current, examined, assets_dir, metas, mi,
          assets_to_check, files, fi, searchable_files, task, reads, outqueue,
          pbar, unused_assets, exit_status, printed>>

front == <<processes, dir, marker>>
tree == <<metas, files>>
located == <<current, examined, assets_dir>>
pool == <<task, reads, outqueue, pbar, unused_assets>>

\* ------------------------------------------------------------ file system
\* A .meta file: what is at the asset path it describes, whether the sidecar can
\* be opened and decoded, and the first match of "guid: ([a-f0-9]{32})" in it.
MetaFile == [kind : {"file", "dir", "missing"}, readable : BOOLEAN,
             match : Guids \cup {NoGuid}]

\* A file under the Assets directory: the candidate asset it is (0: none), whether
\* its name ends with one of the extensions, whether it can be opened
\* ("unopenable"), opened but not decoded as UTF-8 ("undecodable") or read ("ok"),
\* and the identifiers its contents hold as substrings.
TreeFile == [asset : 0..MaxMetas, ext : BOOLEAN,
             status : {"ok", "undecodable", "unopenable"},
             mentions : SUBSET Guids]

SeqsUpTo(S, n) == UNION {[1..k -> S] : k \in 0..n}

Parent(d) == IF d = 0 THEN 0 ELSE d - 1

\* open(path, "r", encoding="utf-8") succeeds: nothing is decoded yet.
Opens(f) == f.status # "unopenable"
\* f.read() succeeds.
Reads(f) == f.status = "ok"

\* ------------------------------------------------ main: argument checks
\* main, line 131: the range check on --processes.
ProcessesValid(p) == ~(p < MinProcesses \/ p > MaxProcesses)

\* main's three early returns: print an error message and return from main.
\* The script ends by falling off "main()" (lines 210-211), so the interpreter
\* exits with status 0.
ErrorReturn(tag) ==
    /\ printed' = printed \cup {tag}
    /\ pc' = "exit"
    /\ exit_status' = "0"

CheckProcesses ==
    /\ pc = "start"
    /\ \/ /\ ~ProcessesValid(processes)
          /\ ErrorReturn("error_processes")
       \/ /\ ProcessesValid(processes)
          /\ pc' = "checkdir"
          /\ UNCHANGED <<exit_status, printed>>
    /\ UNCHANGED <<front, tree, located, mi, assets_to_check, fi, searchable_files, pool>>

CheckDir ==
    /\ pc = "checkdir"
    /\ \/ /\ dir = NoDir
          /\ ErrorReturn("error_dir")
          /\ UNCHANGED current
       \/ /\ dir # NoDir
          /\ pc' = "locate"
          /\ current' = dir            \* Path(start_path).resolve()
          /\ UNCHANGED <<exit_status, printed>>
    /\ UNCHANGED <<front, tree, examined, assets_dir, mi, assets_to_check, fi,
                   searchable_files, pool>>

\* ------------------------------------------------------ find_assets_dir
\* One evaluation of the while condition and, when it holds, one iteration.
find_assets_dir ==
    /\ pc = "locate"
    /\ \/ /\ Parent(current) # current
          /\ current \in marker                       \* (current / "Assets").is_dir()
          /\ examined' = Append(examined, current)
          /\ assets_dir' = current
          /\ pc' = "index"
          /\ UNCHANGED <<current, exit_status, printed>>
       \/ /\ Parent(current) # current
          /\ current \notin marker
          /\ examined' = Append(examined, current)
          /\ current' = Parent(current)
          /\ UNCHANGED <<pc, assets_dir, exit_status, printed>>
       \/ /\ Parent(current) = current               \* loop ends: FileNotFoundError,
          /\ ErrorReturn("error_root")               \* caught by main, lines 143-145
          /\ UNCHANGED <<current, examined, assets_dir>>
    /\ UNCHANGED <<front, tree, mi, assets_to_check, fi, searchable_files, pool>>

\* -------------------------------------------------- find_assets_to_check
\* get_guid_from_meta: the first match of the pattern, None when the file cannot
\* be read (the exception is caught and reported) or holds no match.
get_guid_from_meta(m) == IF m.readable THEN m.match ELSE NoGuid

\* DictSet with the first asset kept (dict.setdefault in place of the assignment).
DictSetFirstWins(d, guid, asset_path) ==
    IF \E i \in DOMAIN d : d[i].guid = guid
    THEN d
    ELSE Append(d, [guid |-> guid, asset_path |-> asset_path])

\* assets_to_check[guid] = asset_path on a dict kept as its items in insertion
\* order: an existing key keeps its place and takes the new value.
DictSet(d, guid, asset_path) ==
    IF \E i \in DOMAIN d : d[i].guid = guid
    THEN [i \in DOMAIN d |->
             IF d[i].guid = guid
             THEN [guid |-> guid, asset_path |-> asset_path]
             ELSE d[i]]
    ELSE Append(d, [guid |-> guid, asset_path |-> asset_path])

\* One .meta file of the walk (the body of the inner loop), or the return.
find_assets_to_check ==
    /\ pc = "index"
    /\ \/ /\ mi < Len(metas)
          /\ LET m == metas[mi + 1]
                 asset_path == mi + 1
                 guid == get_guid_from_meta(m)
             IN /\ assets_to_check' =
                       IF m.kind = "file" /\ guid # NoGuid
                       THEN DictSet(assets_to_check, guid, asset_path)
                       ELSE assets_to_check
                /\ printed' =
                       IF m.kind = "file" /\ ~m.readable
                       THEN printed \cup {"error_reading_meta"}
                       ELSE printed
          /\ mi' = mi + 1
          /\ UNCHANGED pc
       \/ /\ mi = Len(metas)
          /\ pc' = "collect"
          /\ UNCHANGED <<mi, assets_to_check, printed>>
    /\ UNCHANGED <<front, tree, located, fi, searchable_files, pool, exit_status>>

\* ---------------------------------------------- collect_searchable_files
\* Lines 83-91: a file whose name ends with one of the extensions is appended
\* when open() succeeds; the with-block reads nothing.
Collected(f) == f.ext /\ Opens(f)

total_assets == Len(assets_to_check)

\* One file of the walk, or the return; main then builds search_args and the pool.
collect_searchable_files ==
    /\ pc = "collect"
    /\ \/ /\ fi < Len(files)
          /\ searchable_files' =
                 IF Collected(files[fi + 1])
                 THEN Append(searchable_files, fi + 1)
                 ELSE searchable_files
          /\ fi' = fi + 1
          /\ UNCHANGED <<pc, task, reads>>
       \/ /\ fi = Len(files)
          /\ pc' = "pool"
          /\ task' = [t \in 1..total_assets |-> "queued"]
          /\ reads' = [t \in 1..total_assets |-> <<>>]
          /\ UNCHANGED <<fi, searchable_files>>
    /\ UNCHANGED <<front, tree, located, mi, assets_to_check, outqueue, pbar,
                   unused_assets, exit_status, printed>>

\* ------------------------------------------------ find_references_to_guid
\* main, line 168: one work item per entry of the index.
search_args ==
    [t \in 1..total_assets |->
        [guid |-> assets_to_check[t].guid,
         searchable_files |-> searchable_files,
         asset_path |-> assets_to_check[t].asset_path]]

\* Lines 100-103 on one file: the read succeeds and the contents hold the guid.
Matches(guid, f) == Reads(f) /\ guid \in f.mentions

\* Scan with the except clause ending the search ("return" in place of "continue").
RECURSIVE ScanGivesUp(_, _, _, _)
ScanGivesUp(guid, sf, i, rd) ==
    IF i > Len(sf)
    THEN [found |-> FALSE, reads |-> rd]
    ELSE IF ~Reads(files[sf[i]])
         THEN [found |-> FALSE, reads |-> Append(rd, i)]
         ELSE IF Matches(guid, files[sf[i]])
              THEN [found |-> TRUE, reads |-> Append(rd, i)]
              ELSE ScanGivesUp(guid, sf, i + 1, Append(rd, i))

\* The for loop from position i on; rd is the list of positions tried so far.
RECURSIVE Scan(_, _, _, _)
Scan(guid, sf, i, rd) ==
    IF i > Len(sf)
    THEN [found |-> FALSE, reads |-> rd]
    ELSE IF Matches(guid, files[sf[i]])
         THEN [found |-> TRUE, reads |-> Append(rd, i)]
         ELSE Scan(guid, sf, i + 1, Append(rd, i))

\* find_references_to_guid skipping the first file of the list (searchable_files[1:]).
find_references_skip_first(args) ==
    LET r == Scan(args.guid, args.searchable_files, 2, <<>>)
    IN [asset_path |-> args.asset_path, found |-> r.found, reads |-> r.reads]

find_references_to_guid(args) ==
    LET r == Scan(args.guid, args.searchable_files, 1, <<>>)
    IN [asset_path |-> args.asset_path, found |-> r.found, reads |-> r.reads]

\* ------------------------------------------------------------------ the pool
\* Pool(processes).imap_unordered(find_references_to_guid, search_args), chunks
\* of one item: the items are handed out in order to at most `processes` workers.
Running == {t \in DOMAIN task : task[t] = "running"}

StartTask ==
    \E t \in DOMAIN task :
    /\ pc = "pool"
    /\ task[t] = "queued"
    /\ \A u \in 1..(t - 1) : task[u] # "queued"
    /\ Cardinality(Running) < processes
    /\ task' = [task EXCEPT ![t] = "running"]
    /\ UNCHANGED <<pc, front, tree, located, mi, assets_to_check, fi, searchable_files,
                   reads, outqueue, pbar, unused_assets, exit_status, printed>>

\* The worker returns: its result joins the results main iterates over.
FinishTask ==
    \E t \in DOMAIN task :
    /\ pc = "pool"
    /\ task[t] = "running"
    /\ LET r == find_references_to_guid(search_args[t])
       IN /\ outqueue' = Append(outqueue,
                 [ok |-> TRUE, asset_path |-> r.asset_path, found |-> r.found])
          /\ reads' = [reads EXCEPT ![t] = r.reads]
    /\ task' = [task EXCEPT ![t] = "done"]
    /\ UNCHANGED <<pc, front, tree, located, mi, assets_to_check, fi, searchable_files,
                   pbar, unused_assets, exit_status, printed>>

\* An exception leaves find_references_to_guid (it catches only what open and
\* read raise inside the loop): the pool's worker sends it back as the result.
RaiseTask ==
    \E t \in DOMAIN task :
    /\ pc = "pool"
    /\ task[t] = "running"
    /\ outqueue' = Append(outqueue, [ok |-> FALSE, asset_path |-> 0, found |-> FALSE])
    /\ task' = [task EXCEPT ![t] = "raised"]
    /\ UNCHANGED <<pc, front, tree, located, mi, assets_to_check, fi, searchable_files,
                   reads, pbar, unused_assets, exit_status, printed>>

\* The worker process dies (killed, SystemExit, KeyboardInterrupt): the pool
\* replaces the worker, the item it held is lost and no result is ever sent.
DieTask ==
    \E t \in DOMAIN task :
    /\ pc = "pool"
    /\ task[t] = "running"
    /\ task' = [task EXCEPT ![t] = "lost"]
    /\ UNCHANGED <<pc, front, tree, located, mi, assets_to_check, fi, searchable_files,
                   reads, outqueue, pbar, unused_assets, exit_status, printed>>

\* pbar.update(1) moved under "if not result[1]".
PbarUpdateIfUnused(n, result) == IF result.found THEN n ELSE n + 1
\* "if result[1]" in place of "if not result[1]".
IsUnusedInverted(result) == result.found

\* Lines 174-176.
PbarUpdate(n, result) == n + 1
IsUnused(result) == ~result.found

\* One iteration of the for loop over imap_unordered: the next result in
\* completion order; a result that is an exception is raised in main, which has
\* no handler: traceback, exit status 1.
Consume ==
    /\ pc = "pool"
    /\ outqueue # <<>>
    /\ LET result == Head(outqueue)
       IN \/ /\ result.ok
             /\ pbar' = PbarUpdate(pbar, result)
             /\ unused_assets' =
                    IF IsUnused(result)
                    THEN Append(unused_assets, result.asset_path)
                    ELSE unused_assets
             /\ UNCHANGED <<pc, exit_status, printed>>
          \/ /\ ~result.ok
             /\ pc' = "exit"
             /\ exit_status' = "1"
             /\ printed' = printed \cup {"traceback"}
             /\ UNCHANGED <<pbar, unused_assets>>
    /\ outqueue' = Tail(outqueue)
    /\ UNCHANGED <<front, tree, located, mi, assets_to_check, fi, searchable_files,
                   task, reads>>

\* The iterator is exhausted once every item's result has been received and
\* consumed: main prints the report (lines 179-207) and returns.
Report ==
    /\ pc = "pool"
    /\ outqueue = <<>>
    /\ \A t \in DOMAIN task : task[t] = "done"
    /\ pc' = "exit"
    /\ exit_status' = "0"
    /\ printed' = printed \cup {"analysis_complete"}
    /\ UNCHANGED <<front, tree, located, mi, assets_to_check, fi, searchable_files,
                   pool>>

\* ------------------------------------------------------------- initial states
Blank ==
    /\ current = NoDir
    /\ examined = <<>>
    /\ assets_dir = NoDir
    /\ mi = 0
    /\ assets_to_check = <<>>
    /\ fi = 0
    /\ searchable_files = <<>>
    /\ task = <<>>
    /\ reads = <<>>
    /\ outqueue = <<>>
    /\ pbar = 0
    /\ unused_assets = <<>>
    /\ exit_status = "running"
    /\ printed = {}

\* The start of main over every directory chain, with an empty project tree.
InitFront ==
    /\ pc = "start"
    /\ processes \in {MinProcesses - 1, MinProcesses, MaxProcesses, MaxProcesses + 1}
    /\ dir \in {NoDir} \cup (0..MaxDepth)
    /\ marker \in SUBSET (0..MaxDepth)
    /\ metas = <<>>
    /\ files = <<>>
    /\ Blank

NextFront == CheckProcesses \/ CheckDir \/ find_assets_dir

SpecFront == InitFront /\ [][NextFront]_vars

\* The project trees of a whole run.  Sidecars: a regular-file asset declaring
\* each identifier, one without a match, one whose sidecar cannot be read, a
\* directory with a sidecar, and a sidecar whose asset is gone.
RunMetas ==
    {[kind |-> "file", readable |-> TRUE, match |-> g] : g \in Guids \cup {NoGuid}}
    \cup {[kind |-> "file", readable |-> FALSE, match |-> 1],
          [kind |-> "dir", readable |-> TRUE, match |-> 1],
          [kind |-> "missing", readable |-> TRUE, match |-> 1]}

\* Files under Assets: another file holding one identifier or none, a binary
\* file, a file that cannot be opened, a file of another extension, and a
\* candidate asset's own file holding its own identifier.
RunFiles(ms) ==
    {[asset |-> 0, ext |-> TRUE, status |-> "ok", mentions |-> {g}] : g \in Guids}
    \cup {[asset |-> 0, ext |-> TRUE, status |-> "ok", mentions |-> {}],
          [asset |-> 0, ext |-> TRUE, status |-> "undecodable", mentions |-> {1}],
          [asset |-> 0, ext |-> TRUE, status |-> "unopenable", mentions |-> {1}],
          [asset |-> 0, ext |-> FALSE, status |-> "ok", mentions |-> {1}]}
    \cup {[asset |-> k, ext |-> TRUE, status |-> "ok", mentions |-> {ms[k].match}] :
             k \in {j \in DOMAIN ms : ms[j].kind = "file" /\ ms[j].match # NoGuid}}

\* No two files are the same asset.
DistinctAssets(fs) ==
    \A i, j \in DOMAIN fs : (i # j /\ fs[i].asset # 0) => fs[i].asset # fs[j].asset

Init ==
    /\ pc = "start"
    /\ processes \in {MinProcesses - 1, MinProcesses, MinProcesses + 1, MaxProcesses,
                      MaxProcesses + 1}
    /\ dir \in {NoDir, 1}
    /\ marker \in {{}, {1}}
    /\ metas \in SeqsUpTo(RunMetas, MaxMetas)
    /\ files \in {fs \in SeqsUpTo(RunFiles(metas), MaxTreeFiles) : DistinctAssets(fs)}
    /\ Blank

Progress ==
    \/ CheckProcesses
    \/ CheckDir
    \/ find_assets_dir
    \/ find_assets_to_check
    \/ collect_searchable_files
    \/ StartTask
    \/ FinishTask
    \/ Consume
    \/ Report

Fault == RaiseTask \/ DieTask

Next == Progress \/ Fault

Spec == Init /\ [][Next]_vars

\* Every step of main and of a worker that can be taken is taken eventually; a
\* fault is never owed.
FairSpec == Spec /\ WF_vars(Progress)

\* --------------------------------------- find_assets_to_check on its own
\* main at line 149, over every sequence of sidecar files.
InitIndex ==
    /\ pc = "index"
    /\ processes = MinProcesses
    /\ dir = 1
    /\ marker = {1}
    /\ metas \in SeqsUpTo(MetaFile, MaxMetas)
    /\ files = <<>>
    /\ current = 1
    /\ examined = <<1>>
    /\ assets_dir = 1
    /\ mi = 0
    /\ assets_to_check = <<>>
    /\ fi = 0
    /\ searchable_files = <<>>
    /\ task = <<>>
    /\ reads = <<>>
    /\ outqueue = <<>>
    /\ pbar = 0
    /\ unused_assets = <<>>
    /\ exit_status = "running"
    /\ printed = {}

SpecIndex == InitIndex /\ [][find_assets_to_check]_vars

\* ------------------------------------- find_references_to_guid on its own
\* The pool at line 171 with one work item per identifier, over every corpus
\* list: any file of the list may have become unreadable since it was collected.
CorpusFile == [asset : {0}, ext : {TRUE},
               status : {"ok", "undecodable", "unopenable"},
               mentions : SUBSET Guids]

InitResolve ==
    /\ pc = "pool"
    /\ processes \in {MinProcesses, MinProcesses + 1}
    /\ dir = 1
    /\ marker = {1}
    /\ metas = [g \in Guids |-> [kind |-> "file", readable |-> TRUE, match |-> g]]
    /\ files \in SeqsUpTo(CorpusFile, MaxCorpus)
    /\ current = 1
    /\ examined = <<1>>
    /\ assets_dir = 1
    /\ mi = Len(metas)
    /\ assets_to_check = [g \in Guids |-> [guid |-> g, asset_path |-> g]]
    /\ fi = Len(files)
    /\ searchable_files = [j \in DOMAIN files |-> j]
    /\ task = [t \in Guids |-> "queued"]
    /\ reads = [t \in Guids |-> <<>>]
    /\ outqueue = <<>>
    /\ pbar = 0
    /\ unused_assets = <<>>
    /\ exit_status = "running"
    /\ printed = {}

NextResolve == StartTask \/ FinishTask

SpecResolve == InitResolve /\ [][NextResolve]_vars

\* ================================================================== claims
\* The run has finished: the for loop ended and the report was printed.
Finished == pc = "exit" /\ "analysis_complete" \in printed

Count(x, s) == Cardinality({k \in DOMAIN s : s[k] = x})

\* The positions of the corpus list whose file can be read and holds guid.
Holding(guid) ==
    {i \in DOMAIN searchable_files :
        /\ files[searchable_files[i]].status = "ok"
        /\ guid \in files[searchable_files[i]].mentions}

\* metas[i] is the sidecar of a regular file and holds, readably, a well-formed
\* guid line.
Declares(i) ==
    /\ metas[i].kind = "file"
    /\ metas[i].readable
    /\ metas[i].match # NoGuid

C2_AsStated ==
    Finished =>
        \A i \in DOMAIN metas :
            ( /\ Declares(i)
              /\ \A j \in DOMAIN searchable_files :
                     metas[i].match \notin files[searchable_files[j]].mentions )
            => Count(i, unused_assets) = 1

\* C2, amended: the same for every such asset whose identifier no sidecar
\* processed after its own declares for another regular file.
C2_UnreferencedReportedOnce ==
    Finished =>
        \A i \in DOMAIN metas :
            ( /\ Declares(i)
              /\ \A k \in DOMAIN metas :
                     (k > i /\ Declares(k)) => metas[k].match # metas[i].match
              /\ \A j \in DOMAIN searchable_files :
                     metas[i].match \notin files[searchable_files[j]].mentions )
            => Count(i, unused_assets) = 1

\* A finished run in which two unreferenced candidates were resolved by two
\* workers and both are reported.
C2_Witness ==
    /\ Finished
    /\ processes > 1
    /\ Len(metas) = 2
    /\ Declares(1) /\ Declares(2)
    /\ metas[1].match # metas[2].match
    /\ Len(searchable_files) = 1
    /\ files[searchable_files[1]].mentions = {}
    /\ Len(unused_assets) = 2

\* C3, as stated: the list collect_searchable_files builds holds no file whose
\* contents fail to decode as UTF-8.
C3_AsStated ==
    \A i \in DOMAIN searchable_files : files[searchable_files[i]].status = "ok"

\* The examined chain: the levels from the start up to the root that hold the
\* marker, the nearest of them, and the levels from one down to another.
Marked == {d \in 0..dir : d \in marker}
Nearest == CHOOSE d \in Marked : \A e \in Marked : e <= d
Descent(from, to) == [k \in 1..(from - to + 1) |-> from - k + 1]

\* C4, as stated: find_assets_dir examines the start and each ancestor up to and
\* including the filesystem root, returns the marker directory of the first that
\* has one, and fails only when none of them, the root included, has one.
C4_AsStated ==
    /\ pc = "index" =>
           /\ Marked # {}
           /\ assets_dir = Nearest
           /\ examined = Descent(dir, Nearest)
    /\ "error_root" \in printed =>
           /\ Marked = {}
           /\ examined = Descent(dir, 0)

\* Some work item's worker raised or died.
Failed == \E t \in DOMAIN task : task[t] \in {"raised", "lost"}

\* C5, as stated: once a worker has failed on a work item, the run ends with a
\* fatal error, the item is not run again, and no report is printed.
C5_AsStated ==
    /\ [](Failed => <>(pc = "exit" /\ exit_status = "1"))
    /\ [](Failed => "analysis_complete" \notin printed)
    /\ [][\A t \in DOMAIN task :
            task[t] \in {"raised", "lost"} => task'[t] = task[t]]_vars

\* The results main has taken from the iterator: those received less those waiting.
Consumed ==
    Cardinality({t \in DOMAIN task : task[t] = "done"})
        - Cardinality({i \in DOMAIN outqueue : outqueue[i].ok})

\* C6: the progress counter never decreases, advances by one per result consumed,
\* equals the number of results consumed so far, never exceeds the index size and
\* equals it when the run finishes.
C6_ProgressCounter ==
    /\ [](/\ pbar = Consumed
          /\ pbar <= total_assets
          /\ Finished => pbar = total_assets)
    /\ [][pbar' = pbar \/ pbar' = pbar + 1]_vars

\* Two results were completed out of submission order and one is consumed.
C6_Witness ==
    /\ pc = "pool"
    /\ Len(task) = 2
    /\ task[1] = "running"
    /\ task[2] = "done"
    /\ pbar = 1

\* C7, as stated: a run that printed a structural error ends with a non-zero
\* exit status.
C7_AsStated ==
    (printed \cap {"error_processes", "error_dir", "error_root"} # {})
        => exit_status = "1"

\* C8, as stated: when a run finishes, a candidate whose identifier no other
\* file of the corpus holds (only, at most, its own file) is in the Result Set.
C8_AsStated ==
    Finished =>
        \A t \in DOMAIN assets_to_check :
            (\A i \in Holding(assets_to_check[t].guid) :
                 files[searchable_files[i]].asset = assets_to_check[t].asset_path)
            => Count(assets_to_check[t].asset_path, unused_assets) = 1

\* The sidecars among the first n that declare guid, and the last of a set.
Declaring(guid, n) == {i \in 1..n : Declares(i) /\ metas[i].match = guid}
Last(S) == CHOOSE i \in S : \A j \in S : j <= i

ResultOf(t) ==
    CHOOSE r \in {outqueue[i] : i \in DOMAIN outqueue} :
        r.asset_path = assets_to_check[t].asset_path

\* C10: a finished search tried the files of the list in order from the first,
\* found the identifier exactly when some readable file holds it, stopped at the
\* first such file, and otherwise tried every file of the list.
C10_Search ==
    \A t \in DOMAIN task :
        task[t] = "done" =>
            LET guid == assets_to_check[t].guid
                hits == Holding(guid)
            IN /\ ResultOf(t).ok
               /\ reads[t] = [k \in 1..Len(reads[t]) |-> k]
               /\ ResultOf(t).found <=> hits # {}
               /\ ResultOf(t).found =>
                      /\ Len(reads[t]) \in hits
                      /\ \A i \in hits : Len(reads[t]) <= i
               /\ ~ResultOf(t).found => Len(reads[t]) = Len(searchable_files)

\* A search went past an unreadable file and found the identifier in the next.
C10_Witness ==
    \E t \in DOMAIN task :
        /\ task[t] = "done"
        /\ Len(searchable_files) = 2
        /\ files[searchable_files[1]].status # "ok"
        /\ assets_to_check[t].guid \in files[searchable_files[1]].mentions
        /\ ResultOf(t).found
        /\ reads[t] = <<1, 2>>

====
